---- MODULE Spec2Model ----
(***************************************************************************)
(* Model of src/services/imageService.ts: processImageForSticker, the      *)
(* size-targeting PNG re-encoder of telesticker-converter.                 *)
(*                                                                         *)
(* One run is modelled as a state machine whose steps are the points where *)
(* the async function resumes: the FileReader callback, the Image          *)
(* callback (which renders and encodes the initial attempt), one step per  *)
(* awaited generatePng of the scale search and one per awaited generatePng *)
(* of the noise-padding loop.  The canvas PNG codec is the environment: it *)
(* returns a byte size, or fails (no blob / no 2d context).                *)
(*                                                                         *)
(* Scales are the dyadic rationals the code computes, kept exactly as      *)
(* integer numerators over ScaleDen (all of them are exact doubles too).   *)
(***************************************************************************)
EXTENDS Integers, Sequences, FiniteSets, TLC

\* ---------------------------------------------------------------- constants
TARGET_MAX == 500 * 1024
TARGET_MIN == 400 * 1024
BASE_MAX_DIMENSION == 512
MIN_DIMENSION == 240
\* One iteration fewer than line 111.
SearchIterationsShort == 10 - 1

SEARCH_ITERATIONS == 10
NOISE_START == 2
NOISE_STEP == 2
NOISE_MAX == 40

\* Scale s is the integer s * ScaleDen.  low starts at 240/512 = 15/32 and is
\* halved towards high = 1 ten times, so 32 * 2^10 makes every midpoint exact.
ScaleDen == 32 * 1024
ScaleOne == ScaleDen

\* ------------------------------------------------------------------- bounds
\* Number of input images (taken from the front of ImageList).
NumImages == 2
\* Distance of the far under-size / over-size encoder outputs from the limits.
SizeSlack == 1
\* Number of area thresholds a dimension-determined encoder may use.
NumCuts == 4
\* Number of files dropped on the App over a session.
MaxFiles == 3

ImageList ==
    << [w |-> 2000, h |-> 1000],
       [w |-> 300,  h |-> 512],
       [w |-> 1000, h |-> 3],
       [w |-> 10,   h |-> 10],
       [w |-> 511,  h |-> 512],
       [w |-> 37,   h |-> 1999] >>

Images == { ImageList[k] : k \in 1..(IF NumImages < Len(ImageList) THEN NumImages ELSE Len(ImageList)) }

\* Byte sizes the codec may report for a render without noise: just below and
\* exactly at the lower limit, exactly at and above the upper limit.
Sizes == { TARGET_MIN - 1, TARGET_MIN, TARGET_MAX, TARGET_MAX + SizeSlack }

\* Byte sizes it may report for a noisy render: a second under-size value lets
\* successive padded attempts shrink as well as grow.
NoisySizes == Sizes \cup { TARGET_MIN - 1 - SizeSlack }

\* Pixel-area thresholds of a dimension-determined (monotone) encoder.
CutList ==
    << 0, MIN_DIMENSION * MIN_DIMENSION, BASE_MAX_DIMENSION * MIN_DIMENSION,
       BASE_MAX_DIMENSION * BASE_MAX_DIMENSION,
       MIN_DIMENSION * MIN_DIMENSION - 1, 100000 >>

Cuts == { CutList[k] : k \in 1..(IF NumCuts < Len(CutList) THEN NumCuts ELSE Len(CutList)) }

\* ------------------------------------------------------------ pure functions
Max(a, b) == IF a >= b THEN a ELSE b

\* Math.round of the non-negative rational num/den (ties go up).
Round(num, den) == (2 * num + den) \div (2 * den)

\* BaseWidth with the two branches' formulas exchanged.
BaseWidthSwapped(w, h) ==
    IF w >= h THEN BASE_MAX_DIMENSION ELSE Round(h * BASE_MAX_DIMENSION, w)

\* Lines 88-96: the base frame, longest side = BASE_MAX_DIMENSION.
BaseWidth(w, h) ==
    IF w >= h THEN BASE_MAX_DIMENSION ELSE Round(w * BASE_MAX_DIMENSION, h)

BaseHeight(w, h) ==
    IF w >= h THEN Round(h * BASE_MAX_DIMENSION, w) ELSE BASE_MAX_DIMENSION

\* Lines 36-37: each canvas side is clamped to MIN_DIMENSION on its own.
CanvasSide(base, scale) == Max(MIN_DIMENSION, Round(base * scale, ScaleDen))

\* Line 107: Math.max(MIN_DIMENSION / BASE_MAX_DIMENSION, 0.35).
InitialLow ==
    IF MIN_DIMENSION * 100 >= 35 * BASE_MAX_DIMENSION
    THEN (MIN_DIMENSION * ScaleDen) \div BASE_MAX_DIMENSION
    ELSE (35 * ScaleDen) \div 100

\* Line 112.
Mid(lo, hi) == (lo + hi) \div 2

\* AcceptsInitial without the ceiling test.
AcceptsInitialNoCeiling(size) == size >= TARGET_MIN

\* Line 100: the initial attempt is accepted as it is.
AcceptsInitial(size) == size >= TARGET_MIN /\ size <= TARGET_MAX

\* NeedsReduction with the comparison turned round.
NeedsReductionFlipped(size) == size < TARGET_MAX

\* Line 106: the scale search is entered.
NeedsReduction(size) == size > TARGET_MAX

\* MidInfeasible that also rejects a size exactly at the ceiling.
MidInfeasibleAtCeiling(size) == size >= TARGET_MAX

\* Line 115: the midpoint is infeasible.
MidInfeasible(size) == size > TARGET_MAX

\* Lines 115-120: how one midpoint attempt moves the interval and the candidate.
NewHigh(hi, mid, size) == IF MidInfeasible(size) THEN mid ELSE hi

NewLow(lo, mid, size) == IF MidInfeasible(size) THEN lo ELSE mid

\* NewCandidate that keeps whichever feasible attempt has more bytes.
NewCandidateLargestBytes(cand, attempt) ==
    IF MidInfeasible(attempt.size)
          \/ (~MidInfeasible(cand.size) /\ attempt.size <= cand.size)
    THEN cand ELSE attempt

NewCandidate(cand, attempt) ==
    IF MidInfeasible(attempt.size) THEN cand ELSE attempt

\* Line 126: the search left nothing under the ceiling.
StillOversize(size) == size > TARGET_MAX

\* NeedsPadding with the comparison turned round.
NeedsPaddingFlipped(size) == size > TARGET_MIN

\* Line 133: the padding loop is entered.
NeedsPadding(size) == size < TARGET_MIN

\* Line 137: a padded attempt breaches the ceiling, the loop breaks.
PaddingBreaches(size) == size > TARGET_MAX

\* PaddingReaches that misses a size exactly at the floor.
PaddingReachesStrict(size) == size > TARGET_MIN

\* Line 139: a padded attempt reaches the floor, the loop breaks.
PaddingReaches(size) == size >= TARGET_MIN

\* Lines 145 and 151.
StillUndersize(size) == size < TARGET_MIN

\* ---------------------------------------------------------------- the state
VARIABLES
    img,         \* the decoded image's natural width and height
    encoder,     \* the codec of this environment (see EncoderSizes)
    pc,          \* where the run is
    baseWidth, baseHeight,
    best, candidate, padded,   \* {blob, width, height} records of the code
    low, high, i,              \* scale search
    noise,                     \* noise-padding loop counter
    result,                    \* how the promise settled
    \* history of the run, read by the properties only
    first, last, nSearch, nNoise,
    searched,    \* the midpoints tried, in order, and whether each fitted
    heaviest,    \* most bytes of a padded attempt within the ceiling, or -1
    run, prev,
    \* src/App.tsx
    files,       \* the files state: a list of StickerImage entries
    inFlight,    \* ids whose processImageForSticker promise is pending
    liveUrls,    \* object URLs created and not revoked
    nextId,      \* the next fresh id (line 29 draws a random string)
    delivered    \* history: the last step was a delivery; files before it

vars ==
    << img, encoder, pc, baseWidth, baseHeight, best, candidate, padded,
       low, high, i, noise, result, first, last, nSearch, nNoise,
       searched, heaviest, run, prev,
       files, inFlight, liveUrls, nextId, delivered >>

runVars ==
    << img, encoder, pc, baseWidth, baseHeight, best, candidate, padded,
       low, high, i, noise, result, first, last, nSearch, nNoise,
       searched, heaviest, run, prev >>

appVars == << files, inFlight, liveUrls, nextId, delivered >>

\* An attempt: what generatePng returns (size of the blob, canvas width and
\* height) together with the scale and noise strength it was rendered at.
NoAttempt == [size |-> -1, width |-> 0, height |-> 0, scale |-> 0, noise |-> 0]

Attempt(scale, strength, size) ==
    [size |-> size,
     width |-> CanvasSide(baseWidth, scale),
     height |-> CanvasSide(baseHeight, scale),
     scale |-> scale, noise |-> strength]

Pending == [kind |-> "pending", reason |-> "", art |-> NoAttempt]
Resolved(a) == [kind |-> "artifact", reason |-> "", art |-> a]
Rejected(why) == [kind |-> "failure", reason |-> why, art |-> NoAttempt]

ReasonOversize == "Unable to reduce PNG under 500KB. Try a simpler image."
ReasonUndersize == "Could not reach 400KB without breaking the 500KB cap."
ReasonEncode == "Failed to encode PNG"
ReasonContext == "Could not get canvas context"
ReasonLoad == "Failed to load image"
ReasonRead == "Failed to read file"

\* ---------------------------------------------------------------- the codec
\* A codec is either unconstrained ("any": every attempt may report any size,
\* or fail) or, at zero noise, a total non-decreasing function of the rendered
\* pixel dimensions ("mono": sizes step up where the canvas area passes cutMin
\* and cutMax).  With noise the pixels are perturbed by Math.random (line 55),
\* so the size of a noisy render is not determined by the inputs.
MonoSize(w, h) ==
    IF w * h > encoder.cutMax THEN TARGET_MAX + SizeSlack
    ELSE IF w * h > encoder.cutMin THEN TARGET_MIN
    ELSE TARGET_MIN - 1

EncoderSizes(w, h, strength) ==
    IF strength > 0 THEN NoisySizes
    ELSE IF encoder.kind = "mono" THEN { MonoSize(w, h) }
    ELSE Sizes

EncoderMayFail(strength) == encoder.kind = "any" \/ strength > 0

Encoders ==
    { [kind |-> "any", cutMin |-> 0, cutMax |-> 0] }
    \cup { [kind |-> "mono", cutMin |-> a, cutMax |-> b] :
             <<a, b>> \in { c \in Cuts \X Cuts : c[1] <= c[2] } }

\* --------------------------------------------------------------- App state
\* An object URL, named by the file it was created for and by its field.
Url(id, kind) == [file |-> id, kind |-> kind]

NoUrl == [file |-> 0, kind |-> "null"]

NoDelivery == [id |-> 0, before |-> << >>]

\* Lines 11 and 28-37 of src/App.tsx: no files, nothing created yet.
AppStart ==
    /\ files = << >>
    /\ inFlight = {}
    /\ liveUrls = {}
    /\ nextId = 1
    /\ delivered = NoDelivery

\* ------------------------------------------------------------------ actions
Init ==
    /\ img \in Images
    /\ encoder \in Encoders
    /\ pc = "reading"
    /\ baseWidth = 0 /\ baseHeight = 0
    /\ best = NoAttempt /\ candidate = NoAttempt /\ padded = NoAttempt
    /\ low = 0 /\ high = 0 /\ i = 0
    /\ noise = 0
    /\ result = Pending
    /\ first = NoAttempt /\ last = NoAttempt
    /\ nSearch = 0 /\ nNoise = 0
    /\ searched = << >>
    /\ heaviest = -1
    /\ run = 1 /\ prev = Pending
    /\ AppStart

\* Settle without the return that follows resolve/reject: the handler goes on.
SettleNoReturn(r) == pc' = pc /\ result' = r

\* resolve(...) / reject(...): the promise settles and the handler returns.
Settle(r) == pc' = "done" /\ result' = r

\* EncodeFails whose catch delivers the candidate found so far, if any.
EncodeFailsFallsBack(scale, strength) ==
    /\ EncoderMayFail(strength)
    /\ Settle(IF best # NoAttempt THEN Resolved(best) ELSE Rejected(ReasonEncode))
    /\ last' = Attempt(scale, strength, -1)

\* Lines 16-26 and 42-43: an attempt yields no blob, or no 2d context; the
\* exception reaches the catch of line 157.
EncodeFails(scale, strength) ==
    /\ EncoderMayFail(strength)
    /\ \E why \in {ReasonEncode, ReasonContext} : Settle(Rejected(why))
    /\ last' = Attempt(scale, strength, -1)

\* Lines 132-156 up to the first await: best is the candidate of the steps
\* before; either the padding loop starts or the run settles.
FromPadding(b) ==
    /\ best' = b
    /\ IF NeedsPadding(b.size)
       THEN /\ pc' = "noise"
            /\ noise' = NOISE_START
            /\ padded' = NoAttempt
            /\ UNCHANGED result
       ELSE /\ Settle(IF StillUndersize(b.size) THEN Rejected(ReasonUndersize)
                      ELSE Resolved(b))
            /\ UNCHANGED <<noise, padded>>

\* Lines 145-156: the padding loop is over with best = b and padded = p.
AfterPadding(b, p) ==
    LET b2 == IF StillUndersize(b.size) /\ p # NoAttempt THEN p ELSE b
    IN  /\ best' = b2
        /\ Settle(IF StillUndersize(b2.size) THEN Rejected(ReasonUndersize)
                  ELSE Resolved(b2))

\* Lines 82-83, 164-165: the FileReader reads the file.
ReadFile ==
    /\ pc = "reading"
    /\ \/ pc' = "loading" /\ UNCHANGED result
       \/ Settle(Rejected(ReasonRead))
    /\ UNCHANGED << img, encoder, baseWidth, baseHeight, best, candidate,
                    padded, low, high, i, noise, first, last, nSearch, nNoise,
                    searched, heaviest, run, prev >>
    /\ UNCHANGED appVars

\* Lines 84-96, 161-162: the image decodes and the base frame is fixed.
LoadImage ==
    /\ pc = "loading"
    /\ \/ /\ pc' = "initial"
          /\ baseWidth' = BaseWidth(img.w, img.h)
          /\ baseHeight' = BaseHeight(img.w, img.h)
          /\ UNCHANGED result
       \/ /\ Settle(Rejected(ReasonLoad))
          /\ UNCHANGED <<baseWidth, baseHeight>>
    /\ UNCHANGED << img, encoder, best, candidate, padded, low, high, i,
                    noise, first, last, nSearch, nNoise, searched, heaviest,
                    run, prev >>
    /\ UNCHANGED appVars

\* Lines 98-110 (and 132-156 when the search is skipped): the initial attempt.
InitialAttempt ==
    /\ pc = "initial"
    /\ \/ \E size \in EncoderSizes(CanvasSide(baseWidth, ScaleOne),
                                   CanvasSide(baseHeight, ScaleOne), 0) :
            LET attempt == Attempt(ScaleOne, 0, size) IN
            /\ first' = attempt
            /\ last' = attempt
            /\ IF AcceptsInitial(size)
               THEN /\ best' = attempt
                    /\ Settle(Resolved(attempt))
                    /\ UNCHANGED <<low, high, candidate, i, noise, padded>>
               ELSE IF NeedsReduction(size)
               THEN /\ best' = attempt
                    /\ low' = InitialLow
                    /\ high' = ScaleOne
                    /\ candidate' = attempt
                    /\ i' = 0
                    /\ pc' = "search"
                    /\ UNCHANGED <<result, noise, padded>>
               ELSE /\ FromPadding(attempt)
                    /\ UNCHANGED <<low, high, candidate, i>>
       \/ /\ EncodeFails(ScaleOne, 0)
          /\ UNCHANGED <<first, best, low, high, candidate, i, noise, padded>>
    /\ UNCHANGED << img, encoder, baseWidth, baseHeight, nSearch, nNoise,
                    searched, heaviest, run, prev >>
    /\ UNCHANGED appVars

\* Lines 111-130 (and 132-156 after the last iteration): one midpoint attempt.
SearchAttempt ==
    /\ pc = "search"
    /\ i < SEARCH_ITERATIONS
    /\ LET mid == Mid(low, high) IN
       /\ nSearch' = nSearch + 1
       /\ \/ \E size \in EncoderSizes(CanvasSide(baseWidth, mid),
                                      CanvasSide(baseHeight, mid), 0) :
               LET attempt == Attempt(mid, 0, size)
                   cand == NewCandidate(candidate, attempt)
               IN
               /\ last' = attempt
               /\ high' = NewHigh(high, mid, size)
               /\ low' = NewLow(low, mid, size)
               /\ candidate' = cand
               /\ searched' = Append(searched, [scale |-> mid, fits |-> size <= TARGET_MAX])
               /\ i' = i + 1
               /\ IF i + 1 < SEARCH_ITERATIONS
                  THEN UNCHANGED <<pc, result, best, noise, padded>>
                  ELSE IF StillOversize(cand.size)
                  THEN /\ best' = cand
                       /\ Settle(Rejected(ReasonOversize))
                       /\ UNCHANGED <<noise, padded>>
                  ELSE FromPadding(cand)
          \/ /\ EncodeFails(mid, 0)
             /\ UNCHANGED << best, low, high, candidate, i, noise, padded,
                             searched >>
    /\ UNCHANGED << img, encoder, baseWidth, baseHeight, first, nNoise,
                    heaviest, run, prev >>
    /\ UNCHANGED appVars

\* Lines 135-156: one padded attempt at full scale.
NoiseAttempt ==
    /\ pc = "noise"
    /\ noise <= NOISE_MAX
    /\ nNoise' = nNoise + 1
    /\ \/ \E size \in EncoderSizes(CanvasSide(baseWidth, ScaleOne),
                                   CanvasSide(baseHeight, ScaleOne), noise) :
            LET attempt == Attempt(ScaleOne, noise, size) IN
            /\ last' = attempt
            /\ heaviest' = IF size <= TARGET_MAX /\ size > heaviest
                           THEN size ELSE heaviest
            /\ IF PaddingBreaches(size)
               THEN /\ AfterPadding(best, padded)
                    /\ UNCHANGED <<padded, noise>>
               ELSE /\ padded' = attempt
                    /\ IF PaddingReaches(size)
                       THEN AfterPadding(attempt, attempt) /\ UNCHANGED noise
                       ELSE /\ noise' = noise + NOISE_STEP
                            /\ IF noise + NOISE_STEP <= NOISE_MAX
                               THEN UNCHANGED <<pc, result, best>>
                               ELSE AfterPadding(best, attempt)
       \/ /\ EncodeFails(ScaleOne, noise)
          /\ UNCHANGED <<best, padded, noise, heaviest>>
    /\ UNCHANGED << img, encoder, baseWidth, baseHeight, candidate, low, high,
                    i, first, nSearch, searched, run, prev >>
    /\ UNCHANGED appVars

Next == ReadFile \/ LoadImage \/ InitialAttempt \/ SearchAttempt \/ NoiseAttempt

Spec == Init /\ [][Next]_vars

\* The browser's event loop runs every pending callback and promise
\* continuation, so a run that can take a step eventually takes it.
LiveSpec == Spec /\ WF_vars(Next)

\* Line 80 called a second time with the same File, in an environment whose
\* codec is a function of the rendered pixels: the first outcome is kept in
\* prev and a fresh run starts.
Restart ==
    /\ pc = "done"
    /\ run = 1
    /\ encoder.kind = "mono"
    /\ prev' = result
    /\ run' = 2
    /\ pc' = "reading"
    /\ baseWidth' = 0 /\ baseHeight' = 0
    /\ best' = NoAttempt /\ candidate' = NoAttempt /\ padded' = NoAttempt
    /\ low' = 0 /\ high' = 0 /\ i' = 0
    /\ noise' = 0
    /\ result' = Pending
    /\ first' = NoAttempt /\ last' = NoAttempt
    /\ nSearch' = 0 /\ nNoise' = 0
    /\ searched' = << >>
    /\ heaviest' = -1
    /\ UNCHANGED <<img, encoder>>
    /\ UNCHANGED appVars

NextTwice == Next \/ Restart

SpecTwice == Init /\ [][NextTwice]_vars

\* ---------------------------------------------------------------------- App
\* src/App.tsx: the list of dropped files, each with a run of
\* processImageForSticker behind it.  A run is taken by its outcome only: it
\* resolves with an artifact or rejects, at any time after the drop.
FileIds == { files[k].id : k \in 1..Len(files) }

\* Lines 28-37, then line 46 for the same id in the same event.
NewEntry(id) ==
    [id |-> id, previewUrl |-> Url(id, "preview"), processedUrl |-> NoUrl,
     status |-> "PROCESSING"]

\* Lines 52-62: the updater of a resolved run.
Completed(f, id, url) ==
    IF f.id # id THEN f
    ELSE [f EXCEPT !.processedUrl = url, !.status = "COMPLETED"]

\* Line 67: the updater of a rejected run.
Failed(f, id) ==
    IF f.id # id THEN f ELSE [f EXCEPT !.status = "ERROR"]

\* Lines 74-75, 121-122: revokeObjectURL for the URLs an entry holds.
UrlsOf(f) == {f.previewUrl, f.processedUrl} \ {NoUrl}

\* Lines 27-43: files are dropped; each gets a fresh id, a preview URL and a run.
HandleFilesDropped ==
    /\ \E n \in 1..MaxFiles :
         /\ nextId + n - 1 <= MaxFiles
         /\ files' = files \o [j \in 1..n |-> NewEntry(nextId + j - 1)]
         /\ liveUrls' = liveUrls \cup { Url(id, "preview") : id \in nextId..(nextId + n - 1) }
         /\ inFlight' = inFlight \cup (nextId..(nextId + n - 1))
         /\ nextId' = nextId + n
    /\ delivered' = NoDelivery
    /\ UNCHANGED runVars

\* Lines 49-62: a run resolves; its blob gets an object URL and the entry of
\* that id, if the list still has one, is completed.
RunResolves ==
    /\ \E id \in inFlight :
         /\ liveUrls' = liveUrls \cup {Url(id, "processed")}
         /\ files' = [k \in 1..Len(files) |->
                        Completed(files[k], id, Url(id, "processed"))]
         /\ inFlight' = inFlight \ {id}
         /\ delivered' = [id |-> id, before |-> files]
    /\ UNCHANGED nextId
    /\ UNCHANGED runVars

\* Lines 64-67: a run rejects; the entry of that id, if any, shows the error.
RunRejects ==
    /\ \E id \in inFlight :
         /\ files' = [k \in 1..Len(files) |-> Failed(files[k], id)]
         /\ inFlight' = inFlight \ {id}
         /\ delivered' = [id |-> id, before |-> files]
    /\ UNCHANGED <<liveUrls, nextId>>
    /\ UNCHANGED runVars

\* Lines 71-78: the remove button of one card.
HandleRemove ==
    /\ \E k \in 1..Len(files) :
         /\ liveUrls' = liveUrls \ UrlsOf(files[k])
         /\ files' = SelectSeq(files, LAMBDA f : f.id # files[k].id)
    /\ delivered' = NoDelivery
    /\ UNCHANGED <<inFlight, nextId>>
    /\ UNCHANGED runVars

\* Lines 119-125 (the button is rendered while the list is not empty, line 183).
HandleClearAll ==
    /\ Len(files) > 0
    /\ liveUrls' = liveUrls \ UNION { UrlsOf(files[k]) : k \in 1..Len(files) }
    /\ files' = << >>
    /\ delivered' = NoDelivery
    /\ UNCHANGED <<inFlight, nextId>>
    /\ UNCHANGED runVars

NextApp ==
    HandleFilesDropped \/ RunResolves \/ RunRejects \/ HandleRemove \/ HandleClearAll

\* The App on its own: the single-run variables stay as a run starts.
InitApp ==
    /\ AppStart
    /\ img = ImageList[1]
    /\ encoder = [kind |-> "any", cutMin |-> 0, cutMax |-> 0]
    /\ pc = "reading"
    /\ baseWidth = 0 /\ baseHeight = 0
    /\ best = NoAttempt /\ candidate = NoAttempt /\ padded = NoAttempt
    /\ low = 0 /\ high = 0 /\ i = 0
    /\ noise = 0
    /\ result = Pending
    /\ first = NoAttempt /\ last = NoAttempt
    /\ nSearch = 0 /\ nNoise = 0
    /\ searched = << >>
    /\ heaviest = -1
    /\ run = 1 /\ prev = Pending

SpecApp == InitApp /\ [][NextApp]_vars

\* --------------------------------------------------------------- properties
Min(a, b) == IF a <= b THEN a ELSE b

Settled == pc = "done"

IsArtifact == result.kind = "artifact"

EncodeError == result.kind = "failure" /\ result.reason \in {ReasonEncode, ReasonContext}

\* C1: whenever the run resolves with an artifact, its byte size lies in
\* [TARGET_MIN, TARGET_MAX], both ends included, on every path.
C1_ArtifactInWindow ==
    IsArtifact => /\ result.art.size >= TARGET_MIN
                  /\ result.art.size <= TARGET_MAX

\* A run that was reduced by the scale search and then padded with noise
\* resolves with an artifact exactly at the lower limit.
C1_Witness ==
    /\ IsArtifact
    /\ nSearch = SEARCH_ITERATIONS
    /\ result.art.noise > 0
    /\ result.art.size = TARGET_MIN

\* C2 (as claimed): every attempt's long side is round(base long side * scale)
\* clamped to the 240 floor, and its short side is the proportionally scaled
\* short side of the base frame, round(base short side * scale).
C2_AspectKept ==
    last # NoAttempt =>
        /\ Max(last.width, last.height) =
               Max(MIN_DIMENSION,
                   Round(Max(baseWidth, baseHeight) * last.scale, ScaleDen))
        /\ Min(last.width, last.height) =
               Round(Min(baseWidth, baseHeight) * last.scale, ScaleDen)

\* C3: the longest side of every rendered attempt, and of every returned
\* artifact, lies in [MIN_DIMENSION, BASE_MAX_DIMENSION].
C3_LongSideInRange ==
    /\ last # NoAttempt =>
           /\ Max(last.width, last.height) >= MIN_DIMENSION
           /\ Max(last.width, last.height) <= BASE_MAX_DIMENSION
    /\ IsArtifact =>
           /\ Max(result.art.width, result.art.height) >= MIN_DIMENSION
           /\ Max(result.art.width, result.art.height) <= BASE_MAX_DIMENSION

\* An artifact of a portrait image, returned by the scale search at a scale
\* below 1: its long side is strictly inside the range.
C3_Witness ==
    /\ IsArtifact
    /\ img.w < img.h
    /\ result.art.scale < ScaleOne
    /\ result.art.height > MIN_DIMENSION
    /\ result.art.height < BASE_MAX_DIMENSION

\* The outcomes the targeting core itself decides (not a decode or codec error).
CoreOutcome(r) ==
    r.kind = "artifact" \/ r.reason \in {ReasonOversize, ReasonUndersize}

\* C4 (as claimed): a second run on the same image, with a codec that is a
\* function of the rendered pixels, ends with the same outcome as the first:
\* the same failure, or an artifact of the same bytes, width and height.
C4_SameOutcomeTwice ==
    (run = 2 /\ Settled /\ CoreOutcome(prev) /\ CoreOutcome(result)) =>
        /\ result.kind = prev.kind
        /\ result.reason = prev.reason
        /\ result.art.size = prev.art.size
        /\ result.art.width = prev.art.width
        /\ result.art.height = prev.art.height

\* Scales of the allowed interval [InitialLow, 1] on a grid of 1/2048, which
\* holds both ends and a scale for every canvas width from 240 to 512.
AllowedScales ==
    { InitialLow + k * (ScaleDen \div 2048) :
        k \in 0..((ScaleOne - InitialLow) \div (ScaleDen \div 2048)) }

FitsAt(scale) ==
    MonoSize(CanvasSide(baseWidth, scale), CanvasSide(baseHeight, scale))
        <= TARGET_MAX

\* C5: with a codec whose zero-noise size is a non-decreasing function of the
\* rendered dimensions, a run that rendered its initial attempt fails with
\* the oversize reason exactly when no allowed scale, the minimum included,
\* renders to at most TARGET_MAX bytes; so it never reports oversize when the
\* render at the minimum allowed scale fits.
C5_OversizeIffNothingFits ==
    (Settled /\ encoder.kind = "mono" /\ last # NoAttempt) =>
        /\ (result = Rejected(ReasonOversize))
               <=> (\A s \in AllowedScales : ~FitsAt(s))
        /\ FitsAt(InitialLow) => result # Rejected(ReasonOversize)

\* Only the minimum dimensions fit: nine midpoints are infeasible and the
\* tenth, which already renders at the minimum dimensions, is accepted.
C5_Witness ==
    /\ Settled
    /\ encoder.kind = "mono"
    /\ FitsAt(InitialLow)
    /\ \A s \in AllowedScales : s > InitialLow + (ScaleDen \div 2048) => ~FitsAt(s)
    /\ nSearch = SEARCH_ITERATIONS
    /\ result # Rejected(ReasonOversize)
    /\ CoreOutcome(result)

\* Encode attempts made so far, the failed ones included.
AttemptsMade == (IF last # NoAttempt THEN 1 ELSE 0) + nSearch + nNoise

\* C6: every run reaches a terminal result, there is a result exactly when
\* the run is over, at most 31 encode attempts are made, and after the result
\* no attempt is made and the result does not change.
C6_TerminatesOnce ==
    /\ <>Settled
    /\ []((result.kind # "pending") <=> Settled)
    /\ [](AttemptsMade <= 31)
    /\ [][Settled => (result' = result /\ AttemptsMade' = AttemptsMade /\ Settled')]_vars

\* The longest run: 1 initial, 10 search and 20 padding attempts.
C6_Witness == Settled /\ AttemptsMade = 31

InitialUndersize == first # NoAttempt /\ first.size < TARGET_MIN

\* C7 (as claimed): when the initial encode is below TARGET_MIN, a padding
\* attempt is made and the run ends with an artifact inside the window or
\* with the undersize failure, never with the oversize failure and never with
\* the unpadded initial image.
C7_UndersizeEndsPaddedOrUndersize ==
    /\ (InitialUndersize /\ pc # "initial") => (pc = "noise" \/ nNoise >= 1)
    /\ (InitialUndersize /\ Settled) =>
           /\ nNoise >= 1
           /\ \/ /\ IsArtifact
                 /\ result.art.size >= TARGET_MIN
                 /\ result.art.size <= TARGET_MAX
                 /\ result.art.noise > 0
              \/ result = Rejected(ReasonUndersize)

\* C7 (amended): as claimed, except that the run may also end with the encode
\* error of a padding attempt that failed to encode.
C7_UndersizeEndsPaddedOrUndersizeOrEncodeError ==
    /\ (InitialUndersize /\ pc # "initial") => (pc = "noise" \/ nNoise >= 1)
    /\ (InitialUndersize /\ Settled) =>
           /\ nNoise >= 1
           /\ \/ /\ IsArtifact
                 /\ result.art.size >= TARGET_MIN
                 /\ result.art.size <= TARGET_MAX
                 /\ result.art.noise > 0
              \/ result = Rejected(ReasonUndersize)
              \/ EncodeError /\ last.noise > 0 /\ last.size < 0

\* All twenty padding attempts stayed under the floor: the undersize failure.
C7_Witness ==
    /\ InitialUndersize
    /\ Settled
    /\ nNoise = 20
    /\ result = Rejected(ReasonUndersize)

\* C8: the first attempt is the base frame at scale 1 without noise; if it is
\* inside the window the run resolves with it after that one encode; search
\* attempts are made only after an oversize initial attempt; padding attempts
\* are made only once the search (if any) is over and only while the current
\* candidate is below TARGET_MIN.
C8_StepOrder ==
    /\ (last # NoAttempt /\ nSearch = 0 /\ nNoise = 0) =>
           /\ last.scale = ScaleOne /\ last.noise = 0
           /\ last.width = Max(MIN_DIMENSION, baseWidth)
           /\ last.height = Max(MIN_DIMENSION, baseHeight)
           /\ first \in {NoAttempt, last}
    /\ (nSearch > 0 \/ nNoise > 0) => first # NoAttempt
    /\ (first # NoAttempt /\ first.size >= TARGET_MIN /\ first.size <= TARGET_MAX) =>
           /\ Settled
           /\ result = Resolved(first)
           /\ AttemptsMade = 1
    /\ nSearch > 0 => first.size > TARGET_MAX
    /\ pc = "search" => nNoise = 0
    /\ pc = "noise" => best.size < TARGET_MIN
    /\ (pc = "noise" \/ nNoise > 0) =>
           /\ nSearch \in {0, SEARCH_ITERATIONS}
           /\ nSearch = Len(searched)

\* An oversize initial attempt, a complete search, then padding attempts.
C8_Witness ==
    /\ first.size > TARGET_MAX
    /\ nSearch = SEARCH_ITERATIONS
    /\ nNoise = 3
    /\ pc = "noise"

FeasibleScales == { searched[k].scale : k \in { j \in 1..Len(searched) : searched[j].fits } }

InfeasibleScales == { searched[k].scale : k \in { j \in 1..Len(searched) : ~searched[j].fits } }

\* C9: at every iteration of the scale search the initial lower end <= low <
\* mid < high <= 1 with mid the exact midpoint; low is the initial lower end
\* or a scale whose attempt fitted, high is 1 or a scale whose attempt did
\* not fit; and no attempt is rendered below the initial lower end.
C9_SearchInterval ==
    /\ pc = "search" =>
           /\ InitialLow <= low
           /\ low < Mid(low, high)
           /\ Mid(low, high) < high
           /\ high <= ScaleOne
           /\ 2 * Mid(low, high) = low + high
           /\ low \in FeasibleScales \cup {InitialLow}
           /\ high \in InfeasibleScales \cup {ScaleOne}
    /\ last # NoAttempt => last.scale >= InitialLow
    /\ InitialLow * 100 >= 35 * ScaleDen
    /\ InitialLow * BASE_MAX_DIMENSION >= MIN_DIMENSION * ScaleDen

\* Before the last iteration, with both ends of the interval already moved.
C9_Witness ==
    /\ pc = "search"
    /\ i = SEARCH_ITERATIONS - 1
    /\ low > InitialLow
    /\ high < ScaleOne

SearchOver == i = SEARCH_ITERATIONS

LastFeasible ==
    searched[CHOOSE k \in 1..Len(searched) :
                 /\ searched[k].fits
                 /\ \A j \in (k + 1)..Len(searched) : ~searched[j].fits].scale

PaddedLast == last.noise > 0 /\ last.size >= 0

\* C11: every padding attempt renders the base frame at scale 1, whatever
\* scale the search chose; the k-th attempt has strength 2k, so strengths
\* rise strictly and there are at most 20 attempts; no attempt follows one
\* whose size is above TARGET_MAX or at least TARGET_MIN; and an attempt
\* inside the window is the run's artifact at once.
C11_PaddingAttempts ==
    /\ nNoise <= 20
    /\ pc = "noise" => (noise = 2 * (nNoise + 1) /\ noise <= 40)
    /\ nNoise > 0 =>
           /\ last.noise = 2 * nNoise
           /\ last.scale = ScaleOne
           /\ last.width = Max(MIN_DIMENSION, baseWidth)
           /\ last.height = Max(MIN_DIMENSION, baseHeight)
    /\ (PaddedLast /\ (last.size > TARGET_MAX \/ last.size >= TARGET_MIN)) => Settled
    /\ (PaddedLast /\ last.size >= TARGET_MIN /\ last.size <= TARGET_MAX) =>
           result = Resolved(last)

\* After a search that settled on a reduced scale, the fifth padding attempt
\* (strength 10, full scale) lands exactly on the floor and is returned.
C11_Witness ==
    /\ SearchOver
    /\ candidate.scale < ScaleOne
    /\ nNoise = 5
    /\ last.size = TARGET_MIN
    /\ result = Resolved(last)

\* The padding loop is over without an attempt inside the window and without
\* an encode error.
PaddingGaveUp ==
    /\ Settled
    /\ nNoise > 0
    /\ last.size >= 0
    /\ ~(last.size >= TARGET_MIN /\ last.size <= TARGET_MAX)

\* C12 (as claimed): a padding attempt above TARGET_MAX ends the loop at
\* once and the candidate becomes the strongest-noise attempt that stayed
\* within TARGET_MAX (never the attempt above the limit, never a weaker
\* one); and when the loop ends without reaching TARGET_MIN the candidate
\* kept is the attempt of the most bytes among those within TARGET_MAX.
C12_FallbackIsStrongestAndHeaviest ==
    /\ (PaddedLast /\ last.size > TARGET_MAX) =>
           /\ Settled
           /\ best # last
           /\ nNoise > 1 => (best.noise = last.noise - 2 /\ best.size <= TARGET_MAX)
    /\ (PaddingGaveUp /\ heaviest >= 0) =>
           (best.noise > 0 /\ best.size = heaviest)

\* The last attempt was rendered but did not encode.
FailedLast == last # NoAttempt /\ last.size < 0

\* C13: when an encode attempt fails the run is over with a failure that
\* carries the encode error; no artifact is delivered, even if an earlier
\* attempt had given a candidate within the ceiling, and the failed attempt
\* stays the last one (no retry, no further attempt).
C13_EncodeErrorEndsRun ==
    /\ FailedLast =>
           /\ Settled
           /\ result.kind = "failure"
           /\ result.reason \in {ReasonEncode, ReasonContext}
           /\ result.art = NoAttempt
    /\ EncodeError => FailedLast

\* The search left a candidate within the ceiling, a padded attempt stayed
\* within it too, and then the next padded attempt failed to encode.
C13_Witness ==
    /\ FailedLast
    /\ SearchOver
    /\ candidate.size >= 0
    /\ candidate.size <= TARGET_MAX
    /\ padded # NoAttempt
    /\ last.noise > padded.noise
    /\ result = Rejected(ReasonEncode)

\* The delivery just made kept the list's ids and every other file's entry.
DeliveryTouchedOnlyItsFile ==
    delivered.id # 0 =>
        /\ Len(files) = Len(delivered.before)
        /\ \A k \in 1..Len(files) :
             /\ files[k].id = delivered.before[k].id
             /\ files[k].id # delivered.id => files[k] = delivered.before[k]

\* Every object URL still alive belongs to a file of the list.
NoUrlOutlivesItsFile == \A u \in liveUrls : u.file \in FileIds

\* C14 (as claimed): for every interleaving of drops, run completions,
\* handleRemove and handleClearAll, a result delivered for a file that is no
\* longer in the list neither re-inserts it nor changes another file's entry,
\* and every object URL created for a file has been revoked once the file is
\* no longer in the list.
C14_DeliveryAndUrls == DeliveryTouchedOnlyItsFile /\ NoUrlOutlivesItsFile

====
